---- MODULE Spec2Model ----
(***************************************************************************)
(* Model of src/dynamic-react-editor.js: the MainComponent editor session  *)
(* (React state, the Babel loader, the render cycle, the AI update, undo   *)
(* and retry), with the script loads, promise continuations, the network   *)
(* request and the passive effect as interleaved steps.                    *)
(***************************************************************************)
EXTENDS Bags, FiniteSets, Integers, Sequences, TLC

VARIABLES
  state,          \* the useState object of MainComponent (lines 51-68)
  babelLoaded,    \* refs.babelLoaded.current / refs.babel.current (lines 70-73)
  renders,        \* bag of renderComponent invocations in flight
  ai,             \* where the updateWithAI invocation in flight stands
  effectPending,  \* a commit happened and the useEffect has not run yet
  obs,            \* observer: what the last submission/undo step did
  rearmed,        \* observer: a direct edit in ready/error awaits its render
  localStorage,   \* the item stored under the key "customPrompts"
  peer            \* the prompt fields of a second MainComponent on the page

vars == <<state, babelLoaded, renders, ai, effectPending, obs, rearmed,
          localStorage, peer>>

----------------------------------------------------------------------------
(* Bounds and program constants *)

MaxRenders == 2
MaxChunks == 2
MaxSaved == 1
MAX_RETRIES == 5

----------------------------------------------------------------------------
(* Texts are sequences of one-character tokens.  " " is whitespace, "<" an *)
(* angle bracket; the other tokens stand for source fragments whose fate   *)
(* in the external compiler / JS engine is fixed by the token:             *)
(*   "C" a component assigned to module.exports                             *)
(*   "N" valid code that never assigns module.exports                      *)
(*   "T" valid code whose module body throws when run                      *)
(*   "X" a syntax error                                                    *)

WS == " "

Has(t, ch) == \E i \in 1..Len(t) : t[i] = ch

RECURSIVE TrimStart(_)
TrimStart(t) == IF t # <<>> /\ Head(t) = WS THEN TrimStart(Tail(t)) ELSE t

RECURSIVE TrimEnd(_)
TrimEnd(t) ==
  IF t # <<>> /\ t[Len(t)] = WS THEN TrimEnd(SubSeq(t, 1, Len(t) - 1)) ELSE t

\* String.prototype.trim
Trim(t) == TrimEnd(TrimStart(t))

\* String.prototype.startsWith, one-character needle
StartsWith(t, ch) == t # <<>> /\ Head(t) = ch

\* Source texts the editor is mounted with (the `code` prop, line 50)
CodeTexts == { <<WS>>, <<"C">>, <<"X">> }

\* Source texts the user types into the textarea
EditTexts == { <<WS>>, <<"C">>, <<"X">> }

\* Instruction texts committed by the (debounced) prompt input
PromptTexts == { <<WS>>, <<"p">> }

\* Chunks delivered by the response stream
Chunks == { <<WS>>, <<"<">>, <<"C">> }

----------------------------------------------------------------------------
(* Optional values: null is <<>>, a value v is <<v>> *)

Null == <<>>
Some(v) == <<v>>

----------------------------------------------------------------------------
(* External collaborators, as oracles over the tokens *)

\* new Function(code): does the text parse as a function body?
ParsesAsFunctionBody(t) == ~Has(t, "X") /\ ~Has(t, "<")

\* Babel.transform(...) throws on a syntax error
BabelThrows(t) == Has(t, "X")

Compiled(ch) == CASE ch = "C" -> "c" [] ch = "N" -> "n" [] ch = "T" -> "t" [] OTHER -> ch

\* Babel.transform(...).code: every token compiled, whitespace dropped
BabelOutput(t) ==
  LET kept == SelectSeq(t, LAMBDA ch : ch # WS)
  IN  [i \in 1..Len(kept) |-> Compiled(kept[i])]

\* Running the compiled module body throws
ModuleThrows(out) == Has(out, "t")

\* module.exports after the run: the component, or the initial {} (line 133)
EmptyExports == <<>>
ModuleExports(out) == IF Has(out, "c") THEN out ELSE EmptyExports

\* React.createElement(Component, previewProps); it does not throw on an
\* invalid type, the element simply carries it
createElement(type) == <<type>>

----------------------------------------------------------------------------
(* Error messages (lines 96, 119, 147, 155, 181, 195, 204, 213, 220) *)

MsgLoad == "Failed to load Babel"
MsgTranspile(m) == "Error during transpilation: " \o m
MsgRuntime(m) == "Runtime error: " \o m
MsgNoPrompt == "Please enter a prompt for the AI"
MsgStatus == "AI API responded with status 500"
MsgNetwork == "Failed to fetch"
MsgHtml == "Received HTML instead of JavaScript. There may be a server issue."
MsgNotJs == "Invalid JavaScript code"
MsgInvalid(m) ==
  "AI response contains invalid JavaScript code: " \o m \o ". Try refining the prompt."
MsgAiFailed(m) == "AI update failed: " \o m

----------------------------------------------------------------------------
(* React state and updateState *)

\* The argument of updateState: a plain object, or an updater function.  An
\* updater is represented by the object it would return for the latest state.
Object(fields) == [kind |-> "object", val |-> fields]
Updater(fields) == [kind |-> "function", val |-> fields]

NoProps == [k \in {} |-> k]

\* { ...updates }: the own enumerable properties of the argument.  A function
\* object has none.
Spread(u) == IF u.kind = "object" THEN u.val ELSE NoProps

\* JSON.stringify of an array of strings (line 232), as a sequence of tokens:
\* ["p"," "] is the text  [ " p " , "   " ]
Quoted(t) == <<"\"">> \o t \o <<"\"">>

RECURSIVE Elements(_)
Elements(l) ==
  IF l = <<>> THEN <<>>
  ELSE IF Len(l) = 1 THEN Quoted(l[1])
  ELSE Quoted(l[1]) \o <<",">> \o Elements(Tail(l))

stringify(l) == <<"[">> \o Elements(l) \o <<"]">>

\* JSON.parse (line 62) on such a text: ok with the array it denotes, or not
\* ok where JSON.parse throws.
ParseFails == [ok |-> FALSE, value |-> <<>>]

RECURSIVE ParseElements(_)
ParseElements(b) ==
  IF b = <<>> \/ b[1] # "\"" THEN ParseFails
  ELSE LET closing == {i \in 2..Len(b) : b[i] = "\""}
       IN  IF closing = {} THEN ParseFails
           ELSE LET e == CHOOSE i \in closing : \A k \in closing : i <= k
                    item == SubSeq(b, 2, e - 1)
                    rest == SubSeq(b, e + 1, Len(b))
                IN  IF rest = <<>> THEN [ok |-> TRUE, value |-> <<item>>]
                    ELSE IF rest[1] # "," THEN ParseFails
                    ELSE LET more == ParseElements(Tail(rest))
                         IN  IF more.ok
                             THEN [ok |-> TRUE, value |-> <<item>> \o more.value]
                             ELSE ParseFails

parse(j) ==
  IF Len(j) < 2 \/ j[1] # "[" \/ j[Len(j)] # "]" THEN ParseFails
  ELSE IF Len(j) = 2 THEN [ok |-> TRUE, value |-> <<>>]
  ELSE ParseElements(SubSeq(j, 2, Len(j) - 1))

\* The initializer of customPrompts (lines 60-66): a missing item gives null
\* and null || [] is []; a text JSON.parse rejects is caught and gives [].
ReadStore(item) ==
  IF item = Null THEN <<>>
  ELSE IF parse(item[1]).ok THEN parse(item[1]).value
  ELSE <<>>


\* setState((prev) => ({ ...prev, ...updates }))
updateState(prev, u) ==
  [k \in DOMAIN prev |-> IF k \in DOMAIN Spread(u) THEN Spread(u)[k] ELSE prev[k]]

InitialState(initialCode) ==
  [ error |-> Null,
    loadingStatus |-> "idle",
    preview |-> Null,
    code |-> initialCode,
    streamingResponse |-> <<>>,
    aiPrompt |-> <<>>,
    isUpdating |-> FALSE,
    retryCount |-> 0,
    customPrompts |-> ReadStore(localStorage),
    history |-> <<>> ]

\* The second MainComponent of the page (lines 376-387), reduced to the two
\* fields saveCustomPrompt reads
PeerState ==
  [aiPrompt |-> <<>>, customPrompts |-> ReadStore(localStorage)]

NoObs ==
  [ev |-> "none", kind |-> "none", code |-> <<>>, history |-> <<>>, returned |-> <<>>]

Init ==
  /\ localStorage = Null
  /\ peer = PeerState
  /\ \E c \in CodeTexts : state = InitialState(c)
  /\ babelLoaded = FALSE
  /\ renders = EmptyBag
  /\ ai = "none"
  /\ effectPending = TRUE
  /\ obs = NoObs
  /\ rearmed = FALSE

----------------------------------------------------------------------------
(* The preview pipeline: loadBabel, transpileCode, renderComponent *)

Status == state.loadingStatus

InFlight == BagCardinality(renders)

Move(r, next) == (renders (-) SetToBag({r})) (+) SetToBag({next})

Finish(r) == renders (-) SetToBag({r})

\* loadBabel, up to the point where it returns its promise (lines 79-87, 101):
\* the state it leaves and where the caller's await stands.
loadBabel(s) ==
  IF babelLoaded
  THEN [state |-> s, pc |-> "resolved", commit |-> FALSE]
  ELSE [state |-> updateState(s, Object([loadingStatus |-> "loading"])),
        pc |-> "script", commit |-> TRUE]

\* renderComponent() up to its first suspension: transpileCode(state.code)
\* calls loadBabel synchronously and awaits it (lines 128-129, 106-108).
renderComponent(s) ==
  LET l == loadBabel(s)
  IN  [state |-> l.state, commit |-> l.commit,
       proc |-> [src |-> s.code, pc |-> l.pc]]

\* The useEffect guard (lines 262-266)
ShouldRender ==
  /\ Status = "idle"
  /\ Trim(state.code) # <<>>
  /\ ~state.isUpdating

\* useEffect(...) after a commit (lines 261-269)
Effect ==
  /\ effectPending
  /\ IF ShouldRender
     THEN /\ InFlight < MaxRenders
          /\ LET r == renderComponent(state)
             IN  /\ state' = r.state
                 /\ renders' = renders (+) SetToBag({r.proc})
                 /\ effectPending' = r.commit
          /\ rearmed' = FALSE
     ELSE /\ effectPending' = FALSE
          /\ UNCHANGED <<state, renders, rearmed>>
  /\ UNCHANGED <<babelLoaded, ai, obs, localStorage, peer>>

\* script.onload (lines 88-93)
ScriptOnLoad(r) ==
  /\ r.pc = "script"
  /\ babelLoaded' = TRUE
  /\ state' = updateState(state, Object([loadingStatus |-> "idle"]))
  /\ renders' = Move(r, [r EXCEPT !.pc = "resolved"])
  /\ effectPending' = TRUE
  /\ obs' = NoObs
  /\ UNCHANGED <<ai, rearmed, localStorage, peer>>

noInlineStyles == FALSE

\* currentCode.replace(/style=\{\{.*?\}\}/g, ""), with "S" the token for an
\* inline style attribute
StripInlineStyles(t) == SelectSeq(t, LAMBDA ch : ch # "S")

\* What the successful run of the module commits (lines 140-144)
RenderSuccessKeepsStatus(out) ==
  Object([preview |-> Some(createElement(ModuleExports(out)))])
RenderSuccess(out) ==
  Object([preview |-> Some(createElement(ModuleExports(out))), loadingStatus |-> "ready"])

\* What the catch around the run commits (lines 145-150)
RenderFailure(m) ==
  Object([error |-> Some(MsgRuntime(m)), loadingStatus |-> "error"])

\* What transpileCode's catch commits (lines 117-122)
TranspileFailureKeepsStatus(m) ==
  Object([error |-> Some(MsgTranspile(m))])
TranspileFailure(m) ==
  Object([error |-> Some(MsgTranspile(m)), loadingStatus |-> "error"])

\* The continuation of a render cycle once `await loadBabel()` has resolved:
\* the transform (lines 109-116) or its catch (lines 117-122), then, in the
\* next microtask, the run of the compiled module (lines 130-150).  Microtasks
\* run back to back, so the two are one step.
Resume(r) ==
  /\ r.pc = "resolved"
  /\ renders' = Finish(r)
  /\ LET transformedCode == IF noInlineStyles THEN StripInlineStyles(r.src) ELSE r.src
         transpiledCode == BabelOutput(transformedCode)
     IN  IF BabelThrows(transformedCode)
         THEN /\ state' = updateState(state, TranspileFailure("SyntaxError"))
              /\ effectPending' = TRUE
         ELSE IF transpiledCode = <<>>
         THEN UNCHANGED <<state, effectPending>>
         ELSE IF ModuleThrows(transpiledCode)
         THEN /\ state' = updateState(state, RenderFailure("thrown by the module"))
              /\ effectPending' = TRUE
         ELSE /\ state' = updateState(state, RenderSuccess(transpiledCode))
              /\ effectPending' = TRUE
  /\ obs' = NoObs
  /\ UNCHANGED <<babelLoaded, ai, rearmed, localStorage, peer>>

\* script.onerror (lines 94-100), and in the microtask that follows the
\* rejection, transpileCode's catch (lines 117-122); renderComponent then
\* returns on the null (line 130)
ScriptOnError(r) ==
  /\ r.pc = "script"
  /\ state' = updateState(
                updateState(state,
                  Object([error |-> Some(MsgLoad), loadingStatus |-> "error"])),
                TranspileFailure(MsgLoad))
  /\ renders' = Finish(r)
  /\ effectPending' = TRUE
  /\ obs' = NoObs
  /\ UNCHANGED <<babelLoaded, ai, rearmed, localStorage, peer>>

----------------------------------------------------------------------------
(* The AI update: updateWithAI (lines 153-224) *)

\* !state.aiPrompt.trim() (line 154)
BlankUntrimmed(p) == p = <<>>
Blank(p) == Trim(p) = <<>>

\* isValidJavaScript (lines 236-243)
isValidJavaScript(code) == ParsesAsFunctionBody(code)

\* The argument of updateState on a validated response (lines 206-210)
SuccessUpdateAsObject(prevState, aiResponse) ==
  Object([code |-> Trim(aiResponse),
          isUpdating |-> FALSE,
          history |-> Append(prevState.history, prevState.code)])
SuccessUpdate(prevState, aiResponse) ==
  Updater([code |-> Trim(aiResponse),
           isUpdating |-> FALSE,
           history |-> Append(prevState.history, prevState.code)])

\* The inner catch (lines 211-217)
InvalidUpdate(m) ==
  Object([error |-> Some(MsgInvalid(m)), loadingStatus |-> "error", isUpdating |-> FALSE])

\* The outer catch (lines 218-223)
FailedUpdateOverwrites(m) ==
  Object([error |-> Some(MsgAiFailed(m)), isUpdating |-> FALSE, code |-> <<>>])
FailedUpdate(m) ==
  Object([error |-> Some(MsgAiFailed(m)), isUpdating |-> FALSE])

\* What a step of a submission (or of retry) did: the event, the failure kind,
\* sourceCode and undoStack just before the step, and on success the trimmed
\* response text
Observed(ev, kind, returned) ==
  [ev |-> ev, kind |-> kind, code |-> state.code, history |-> state.history,
   returned |-> returned]

\* disabled={state.isUpdating} of the "Update with AI" button (line 292)
UpdateNeverDisabled == FALSE
UpdateDisabled == state.isUpdating

\* Click on "Update with AI" (lines 290-296): updateWithAI up to the fetch
\* (lines 153-178).  A disabled button delivers no click.
ClickUpdate ==
  /\ ~effectPending
  /\ ~UpdateDisabled
  /\ IF Blank(state.aiPrompt)
     THEN /\ state' = updateState(state, Object([error |-> Some(MsgNoPrompt)]))
          /\ obs' = Observed("blank", "EmptyInstruction", <<>>)
          /\ UNCHANGED ai
     ELSE /\ state' = updateState(state, Object([isUpdating |-> TRUE, error |-> Null]))
          /\ ai' = "fetch"
          /\ obs' = NoObs
  /\ effectPending' = TRUE
  /\ rearmed' = FALSE
  /\ UNCHANGED <<babelLoaded, renders, localStorage, peer>>

\* fetch rejects, or a reader.read() rejects: a network fault (line 218)
AiNetworkFault ==
  /\ ai \in {"fetch", "read"}
  /\ state' = updateState(state, FailedUpdate(MsgNetwork))
  /\ ai' = "none"
  /\ effectPending' = TRUE
  /\ obs' = Observed("aiFail", "TransportError", <<>>)
  /\ UNCHANGED <<babelLoaded, renders, rearmed, localStorage, peer>>

\* fetch resolves with a non-success status (lines 180-181)
AiBadStatus ==
  /\ ai = "fetch"
  /\ state' = updateState(state, FailedUpdate(MsgStatus))
  /\ ai' = "none"
  /\ effectPending' = TRUE
  /\ obs' = Observed("aiFail", "TransportError", <<>>)
  /\ UNCHANGED <<babelLoaded, renders, rearmed, localStorage, peer>>

\* fetch resolves with response.ok (lines 180-185)
AiResponds ==
  /\ ai = "fetch"
  /\ ai' = "read"
  /\ obs' = NoObs
  /\ UNCHANGED <<state, babelLoaded, renders, effectPending, rearmed, localStorage, peer>>

\* The texts a stream of at most MaxChunks chunks accumulates to (lines
\* 185-190): aiResponse is local to the loop, so only its final value counts
RECURSIVE Accumulated(_)
Accumulated(n) ==
  IF n = 0 THEN { <<>> }
  ELSE Accumulated(n - 1) \cup
       { acc \o chunk : acc \in Accumulated(n - 1), chunk \in Chunks }

\* reader.read() yields done: validation and the final update (lines 188-217)
AiStreamDone(aiResponse) ==
  /\ ai = "read"
  /\ IF StartsWith(Trim(aiResponse), "<")
     THEN /\ state' = updateState(state, FailedUpdate(MsgHtml))
          /\ obs' = Observed("aiFail", "UnexpectedMarkup", <<>>)
     ELSE IF isValidJavaScript(aiResponse)
     THEN /\ state' = updateState(state, SuccessUpdate(state, aiResponse))
          /\ obs' = Observed("aiSuccess",
                              IF obs.ev = "editInFlight" THEN "afterEdit" ELSE "none",
                              Trim(aiResponse))
     ELSE /\ state' = updateState(state, InvalidUpdate(MsgNotJs))
          /\ obs' = Observed("aiFail", "InvalidSyntax", <<>>)
  /\ ai' = "none"
  /\ effectPending' = TRUE
  /\ UNCHANGED <<babelLoaded, renders, rearmed, localStorage, peer>>

----------------------------------------------------------------------------
(* The other user actions *)

\* textarea onChange (line 312); o is what the observer records of the step
onChangePushesHistory(t, o) ==
  /\ ~effectPending
  /\ t # state.code
  /\ state' = updateState(state, Object([code |-> t,
                                         history |-> Append(state.history, state.code)]))
  /\ effectPending' = TRUE
  /\ rearmed' = (Trim(t) # <<>> /\ Status \in {"ready", "error"} /\ ~state.isUpdating)
  /\ obs' = o
  /\ UNCHANGED <<babelLoaded, renders, ai, localStorage, peer>>

onChange(t, o) ==
  /\ ~effectPending
  /\ t # state.code
  /\ state' = updateState(state, Object([code |-> t]))
  /\ effectPending' = TRUE
  /\ rearmed' = (Trim(t) # <<>> /\ Status \in {"ready", "error"} /\ ~state.isUpdating)
  /\ obs' = o
  /\ UNCHANGED <<babelLoaded, renders, ai, localStorage, peer>>

EditCode(t) == onChange(t, NoObs)

\* The same edit, made while the response stream of a request is being read
EditInFlight(t) ==
  /\ ai = "read"
  /\ onChange(t, [NoObs EXCEPT !.ev = "editInFlight"])

\* The debounced commit of the instruction input (lines 226-228, 277)
TypePrompt(p) ==
  /\ ~effectPending
  /\ state' = updateState(state, Object([aiPrompt |-> p]))
  /\ effectPending' = TRUE
  /\ rearmed' = FALSE
  /\ obs' = NoObs
  /\ UNCHANGED <<babelLoaded, renders, ai, localStorage, peer>>

\* const newPrompts = [...state.customPrompts, state.aiPrompt] (line 231),
\* for either instance
newPrompts(s) == Append(s.customPrompts, s.aiPrompt)

\* Click on "Save Prompt": saveCustomPrompt (lines 230-234, 297-302)
SavePrompt ==
  /\ ~effectPending
  /\ Len(state.customPrompts) < MaxSaved
  /\ localStorage' = Some(stringify(newPrompts(state)))
  /\ state' = updateState(state, Object([customPrompts |-> newPrompts(state)]))
  /\ effectPending' = TRUE
  /\ rearmed' = FALSE
  /\ obs' = NoObs
  /\ UNCHANGED <<babelLoaded, renders, ai, peer>>

\* The same two handlers in the second MainComponent of the page
PeerType(p) ==
  /\ p # peer.aiPrompt
  /\ peer' = [peer EXCEPT !.aiPrompt = p]
  /\ UNCHANGED <<state, babelLoaded, renders, ai, effectPending, obs, rearmed,
                 localStorage>>

PeerSave ==
  /\ Len(peer.customPrompts) < MaxSaved
  /\ localStorage' = Some(stringify(newPrompts(peer)))
  /\ peer' = [peer EXCEPT !.customPrompts = newPrompts(peer)]
  /\ UNCHANGED <<state, babelLoaded, renders, ai, effectPending, obs, rearmed>>

\* The argument of updateState in undoLastChange (lines 253-257)
UndoUpdate(prevState) ==
  Updater([code |-> prevState.history[Len(prevState.history)],
           history |-> SubSeq(prevState.history, 1, Len(prevState.history) - 1)])

\* Click on "Undo Last Change": undoLastChange (lines 251-259)
Undo ==
  /\ ~effectPending
  /\ IF Len(state.history) > 0
     THEN /\ state' = updateState(state, UndoUpdate(state))
          /\ effectPending' = TRUE
     ELSE UNCHANGED <<state, effectPending>>
  /\ obs' = IF obs.ev = "aiSuccess" THEN [obs EXCEPT !.ev = "undone"] ELSE NoObs
  /\ rearmed' = FALSE
  /\ UNCHANGED <<babelLoaded, renders, ai, localStorage, peer>>

\* The panel shows ErrorContent with its Retry button (lines 327-341)
ErrorShown == Status \in {"ready", "error"} /\ state.error # Null

\* state.retryCount < MAX_RETRIES (line 334)
RetryAllowedInclusive(n) == n <= MAX_RETRIES
RetryAllowed(n) == n < MAX_RETRIES

\* Click on "Retry": handleRetry (lines 333-340)
Retry ==
  /\ ~effectPending
  /\ ErrorShown
  /\ IF RetryAllowed(state.retryCount)
     THEN /\ InFlight < MaxRenders
          /\ LET counted == updateState(state,
                              Object([retryCount |-> state.retryCount + 1]))
                 r == renderComponent(counted)
             IN  /\ state' = r.state
                 /\ renders' = renders (+) SetToBag({r.proc})
          /\ obs' = NoObs
     ELSE /\ state' = updateState(state, Object([retryCount |-> 0]))
          /\ obs' = Observed("retryCapped", "none", <<>>)
          /\ UNCHANGED renders
  /\ effectPending' = TRUE
  /\ rearmed' = FALSE
  /\ UNCHANGED <<babelLoaded, ai, localStorage, peer>>

----------------------------------------------------------------------------
(* Specifications *)

User ==
  \/ \E t \in EditTexts : EditCode(t)
  \/ \E p \in PromptTexts : TypePrompt(p)
  \/ ClickUpdate
  \/ Undo
  \/ Retry

RenderStep ==
  \E r \in BagToSet(renders) :
    \/ ScriptOnLoad(r)
    \/ ScriptOnError(r)
    \/ Resume(r)

AiStep ==
  \/ AiNetworkFault
  \/ AiBadStatus
  \/ AiResponds
  \/ \E aiResponse \in Accumulated(MaxChunks) : AiStreamDone(aiResponse)

Next == User \/ Effect \/ RenderStep \/ AiStep

Spec == Init /\ [][Next]_vars

\* The effect runs after every commit, every pending script load, promise
\* continuation and network operation completes; the user owes nothing.
FairSpec == Spec /\ WF_vars(Effect) /\ WF_vars(RenderStep) /\ WF_vars(AiStep)

\* A session that is mounted and left alone while every script load succeeds:
\* no user action, no script.onerror.  The source is any text of at most
\* MaxLen tokens, among them code that throws when run ("T") and code that
\* never assigns module.exports ("N").
MaxLen == 2

RECURSIVE TextsUpTo(_)
TextsUpTo(n) ==
  IF n = 0 THEN { <<>> }
  ELSE TextsUpTo(n - 1) \cup
       { t \o <<ch>> : t \in TextsUpTo(n - 1), ch \in {WS, "C", "X", "T", "N"} }

MountInit ==
  /\ localStorage = Null
  /\ peer = PeerState
  /\ \E c \in TextsUpTo(MaxLen) : state = InitialState(c)
  /\ babelLoaded = FALSE
  /\ renders = EmptyBag
  /\ ai = "none"
  /\ effectPending = TRUE
  /\ obs = NoObs
  /\ rearmed = FALSE

MountRender == \E r \in BagToSet(renders) : ScriptOnLoad(r) \/ Resume(r)

MountNext == Effect \/ MountRender

MountSpec ==
  MountInit /\ [][MountNext]_vars /\ WF_vars(Effect) /\ WF_vars(MountRender)

\* A session in which the user types instructions, submits them and edits
\* the code while a response is streaming; everything else runs as in Spec.
LateUser ==
  \/ \E p \in PromptTexts : TypePrompt(p)
  \/ ClickUpdate
  \/ \E t \in EditTexts : EditInFlight(t)

LateNext == LateUser \/ Effect \/ RenderStep \/ AiStep

LateSpec == Init /\ [][LateNext]_vars

\* The story page: two MainComponents over one localStorage, which may hold
\* nothing, a text that is not JSON, or a list saved by an earlier session.
\* The users type and save prompts; the first instance also renders.
StoredItems == { Null, Some(<<"{">>), Some(stringify(<< <<"p">> >>)) }

StoryInit ==
  /\ localStorage \in StoredItems
  /\ peer = PeerState
  /\ \E c \in CodeTexts : state = InitialState(c)
  /\ babelLoaded = FALSE
  /\ renders = EmptyBag
  /\ ai = "none"
  /\ effectPending = TRUE
  /\ obs = NoObs
  /\ rearmed = FALSE

StoryUser ==
  \/ \E p \in PromptTexts : TypePrompt(p)
  \/ SavePrompt
  \/ \E p \in PromptTexts : PeerType(p)
  \/ PeerSave

StoryNext == StoryUser \/ Effect \/ RenderStep

StorySpec == StoryInit /\ [][StoryNext]_vars

\* The session of Spec in which the user also saves prompts
FrameNext == Next \/ SavePrompt

FrameSpec == Init /\ [][FrameNext]_vars

----------------------------------------------------------------------------
(* Claims *)

\* No script load, promise continuation, network operation or effect is due
Quiescent == ~effectPending /\ renders = EmptyBag /\ ai = "none"

\* C1: when the suggestion request completes with a response that passes
\* validation, sourceCode is the trimmed response and undoStack is the
\* previous undoStack with the previous sourceCode appended.
C1_SuccessReplacesSource ==
  obs.ev = "aiSuccess" =>
    /\ state.code = obs.returned
    /\ state.history = Append(obs.history, obs.code)

\* C2: a successful submission followed immediately by undo leaves sourceCode
\* and undoStack as they were before the submission completed.
C2_UndoInvertsSubmit ==
  obs.ev = "undone" => state.code = obs.code /\ state.history = obs.history

C2_Witness == obs.ev = "undone" /\ obs.returned # obs.code

\* C3: a failed submission of any kind (blank instruction, transport failure,
\* markup response, response that does not parse) leaves sourceCode as it was.
C3_FailureKeepsSource ==
  obs.ev \in {"blank", "aiFail"} => state.code = obs.code

C3_Witness ==
  obs.ev = "aiFail" /\ obs.kind = "UnexpectedMarkup" /\ state.code # <<>>

\* C4: every failure of a submitted non-blank instruction (TransportError,
\* UnexpectedMarkup, InvalidSyntax) ends with status error and a non-empty
\* recorded error message.
C4_FailureSetsErrorStatus ==
  obs.ev = "aiFail" =>
    /\ Status = "error"
    /\ state.error # Null
    /\ state.error[1] # ""

\* C5: once the request of a submission has completed, with success or with
\* failure, isUpdating is false again.
C5_UpdatingCleared == ai = "none" => ~state.isUpdating

\* C6: a click on update with an empty or whitespace-only instruction issues
\* no request, leaves isUpdating false and records the missing-prompt error.
AllWhitespace(p) == \A i \in 1..Len(p) : p[i] = WS

C6_BlankIssuesNoRequest ==
  [][(ClickUpdate /\ AllWhitespace(state.aiPrompt)) =>
       /\ ai' = "none"
       /\ ~state'.isUpdating
       /\ state'.error = Some(MsgNoPrompt)]_vars

C6_Witness == obs.ev = "blank" /\ state.aiPrompt = <<WS>> /\ ai = "none"

\* C7: retryCount stays within 0..5, and a retry taken at retryCount 5 starts
\* no render cycle, sets retryCount to 0 and leaves status unchanged.
C7_RetryCeiling ==
  /\ [](state.retryCount \in 0..MAX_RETRIES)
  /\ [][(Retry /\ state.retryCount = MAX_RETRIES) =>
          /\ state'.retryCount = 0
          /\ renders' = renders
          /\ state'.loadingStatus = state.loadingStatus]_vars

C7_Witness == obs.ev = "retryCapped" /\ state.retryCount = 0 /\ Status = "error"

\* C8: after any step that takes status from error to another value,
\* retryCount is 0.
C8_RetryCountResets ==
  [][(state.loadingStatus = "error" /\ state'.loadingStatus # "error") =>
       state'.retryCount = 0]_vars

\* C9: after a direct edit to a different non-blank text in status ready or
\* error with no update in flight, the session does not come to rest before
\* the automatic trigger has started a render cycle for the new text.
C9_EditRearmsRender == rearmed => ~Quiescent

\* C10: mounted with a non-blank source that compiles and runs, and left
\* alone while the compiler loads, the session eventually is in status ready
\* with a preview and stays there.
GoodSource(c) ==
  /\ Trim(c) # <<>>
  /\ ~BabelThrows(c)
  /\ ~ModuleThrows(BabelOutput(c))

C10_HappyPath ==
  GoodSource(state.code) => <>[](Status = "ready" /\ state.preview # Null)

C10_Witness ==
  GoodSource(state.code) /\ Status = "ready" /\ state.preview # Null /\ Quiescent

\* C11: a render cycle on a source text that fails to compile ends with
\* status error and the compiler diagnostic in the error message, commits
\* nothing of the execution step (no preview, no runtime error) and leaves
\* sourceCode unchanged.
C11_CompileFailureIsError ==
  [][\A r \in BagToSet(renders) :
       (Resume(r) /\ BabelThrows(r.src)) =>
         /\ state'.loadingStatus = "error"
         /\ state'.error = Some(MsgTranspile("SyntaxError"))
         /\ state'.preview = state.preview
         /\ state'.code = state.code]_vars

C11_Witness ==
  /\ BabelThrows(state.code)
  /\ Status = "error"
  /\ state.error = Some(MsgTranspile("SyntaxError"))
  /\ state.preview = Null
  /\ renders = EmptyBag

\* C12: a compiled artifact that runs without throwing but never assigns
\* module.exports never leaves the session in status ready with a preview;
\* its render cycle ends in status error.
MissingExport(c) ==
  /\ ~BabelThrows(c)
  /\ BabelOutput(c) # <<>>
  /\ ~ModuleThrows(BabelOutput(c))
  /\ ModuleExports(BabelOutput(c)) = EmptyExports

C12_MissingExportIsError ==
  MissingExport(state.code) => ~(Status = "ready" /\ state.preview # Null)

\* Script loads started by loadBabel whose onload/onerror has not fired yet
PendingLoads ==
  BagCardinality([r \in {q \in BagToSet(renders) : q.pc = "script"} |-> renders[r]])

\* C13: the compiler load is single-flight: a step that starts a script load
\* is taken only when no earlier load is pending and no load has succeeded.
C13_SingleFlightLoad ==
  [][PendingLoads' > PendingLoads => (PendingLoads = 0 /\ ~babelLoaded)]_vars

\* C17: every change of status follows one of the edges idle->loading,
\* loading->ready, loading->error, error->loading, ready->loading.
StatusEdges ==
  { <<"idle", "loading">>, <<"loading", "ready">>, <<"loading", "error">>,
    <<"error", "loading">>, <<"ready", "loading">> }

C17_StatusEdges ==
  [][state'.loadingStatus # state.loadingStatus =>
       <<state.loadingStatus, state'.loadingStatus>> \in StatusEdges]_vars

\* C18: in a state with isUpdating true no step starts a render cycle,
\* neither the effect nor the retry action.
C18_NoRenderWhileUpdating ==
  [][state.isUpdating => InFlight' <= InFlight]_vars

\* C20: in every reachable state with status ready the recorded error is
\* null.
C20_ReadyHasNoError ==
  Status = "ready" => state.error = Null

\* C14: at most one suggestion request is in flight: every step leaves
\* isUpdating true while a request is in flight, and no step taken with
\* isUpdating true starts a request.
C14_SingleRequest ==
  [][/\ ai' # "none" => state'.isUpdating
     /\ state.isUpdating => (ai' = "fetch" => ai = "fetch")]_vars

C14_Witness ==
  /\ ai = "read"
  /\ state.isUpdating
  /\ ~effectPending
  /\ ~Blank(state.aiPrompt)

\* C15: when sourceCode was edited while the request was in flight and the
\* request then succeeds, the result still applies: sourceCode is the
\* returned text and undoStack gained the sourceCode current at completion.
C15_LateCompletionApplies ==
  (obs.ev = "aiSuccess" /\ obs.kind = "afterEdit") =>
    /\ state.code = obs.returned
    /\ state.history = Append(obs.history, obs.code)

\* C16: every savePrompt leaves the persisted list equal to the persisted
\* list before the call with the instruction appended, and the saving
\* instance's in-memory list equal to the persisted list, for either of two
\* instances sharing the store.
C16_SaveAppends ==
  [][/\ SavePrompt =>
          /\ ReadStore(localStorage') = Append(ReadStore(localStorage), state.aiPrompt)
          /\ state'.customPrompts = ReadStore(localStorage')
     /\ PeerSave =>
          /\ ReadStore(localStorage') = Append(ReadStore(localStorage), peer.aiPrompt)
          /\ peer'.customPrompts = ReadStore(localStorage')]_vars

\* C19: undoStack changes only by a push of exactly one element (the code
\* current at that moment) in a successful assistant update and by a pop of
\* exactly one element in an undo; every other step, among them direct edits,
\* render steps, retry, savePrompt, typing, failed submissions and undo on an
\* empty stack, leaves it unchanged.
C19_UndoStackFrame ==
  [][state'.history # state.history =>
       \/ /\ obs'.ev = "aiSuccess"
          /\ state'.history = Append(state.history, state.code)
       \/ /\ Undo
          /\ state.history # <<>>
          /\ state'.history = SubSeq(state.history, 1, Len(state.history) - 1)]_vars

C19_Witness ==
  /\ obs.ev = "aiFail"
  /\ state.retryCount > 0
  /\ state.customPrompts # <<>>
  /\ state.code # <<>>
  /\ state.history = <<>>

====
